---- MODULE Spec2Model ----
(***************************************************************************)
(* Persistent run state of BlockSpool (.blockspool/run-state.json): cycle  *)
(* counters and the backlog of deferred proposals, with the operations     *)
(* readRunState, writeRunState, recordCycle, isDocsAuditDue,               *)
(* recordDocsAudit, deferProposal and popDeferredForScope; and the loader  *)
(* of project guidelines, loadGuidelines.                                  *)
(*                                                                         *)
(* The backing file is the only persistent state; the module-level object  *)
(* DEFAULT_STATE lives as long as the process.  Every operation is         *)
(* synchronous, so within one process each one is a single atomic action;  *)
(* two processes interleave between the read and the write of an           *)
(* operation.  Strings are TLA+ strings; paths and scopes are compared     *)
(* character by character.                                                 *)
(***************************************************************************)
EXTENDS Integers, Sequences, FiniteSets, TLC

VARIABLES
    fs,          \* the file system under repoRoot: [dir, kind, json]
    defaultProposals,
                 \* the array DEFAULT_STATE.deferredProposals of the process
    disk,        \* whether a write can succeed: "ok", "denied" or "full"
    now,         \* the wall clock read by Date.now(), in ms
    ticks,       \* how many times the clock has advanced
    cycleCalls,  \* history: number of recordCycle calls completed
    sinceAudit,  \* history: recordCycle calls completed since the last
                 \* recordDocsAudit completed (since the start if none)
    lastOp,      \* history: the last call made, its arguments and its result
    procs,       \* two processes racing on the file: each one's position,
                 \* the state it read and what it returned
    gfiles,      \* the guidelines files under repoRoot
    loaded       \* history: the last loadGuidelines call and its result

vars == <<fs, defaultProposals, disk, now, ticks, cycleCalls, sinceAudit,
          lastOp, procs, gfiles, loaded>>

\* what the calls of one process on the run state leave alone
elsewhere == <<disk, procs, gfiles, loaded>>

----------------------------------------------------------------------------
(* Bounds of the model *)

\* recordCycle is called at most MaxCycles times in a run
MaxCycles == 2

\* the clock advances at most MaxTicks times in a run
MaxTicks == 2

----------------------------------------------------------------------------
(* Program constants *)

MAX_DEFERRED_AGE_MS == 7 * 24 * 60 * 60 * 1000

DEFAULT_STATE ==
    [totalCycles |-> 0,
     lastDocsAuditCycle |-> 0,
     lastRunAt |-> 0,
     deferredProposals |-> <<>>]

----------------------------------------------------------------------------
(* Inputs *)

\* how far the clock advances on its n-th advance: the maximum age, then one
\* ms more, alternately, so that a proposal is seen at the ages
\* MAX_DEFERRED_AGE_MS (kept) and MAX_DEFERRED_AGE_MS + 1 (stale)
TickStep(n) == IF n % 2 = 0 THEN MAX_DEFERRED_AGE_MS ELSE 1

\* intervals passed to isDocsAuditDue (3 is the default of the parameter)
Intervals == {0, 1, 2, 3}

\* base scopes and the suffixes a caller may put on them
Bases == {"", "pkg"}
Suffixes == {"", "/", "/*", "/**"}
Scopes == {b \o s : b \in Bases, s \in Suffixes} \cup {"other"}

\* what the caller fills in besides deferredAt
Templates ==
    { [title |-> "A", category |-> "fix",
       files |-> <<"pkg/foo.ts", "pkg">>, allowed_paths |-> <<"other/x.ts">>],
      [title |-> "A", category |-> "docs",
       files |-> <<"pkg2/x.ts">>, allowed_paths |-> <<"pkg">>],
      [title |-> "B", category |-> "fix",
       files |-> <<>>, allowed_paths |-> <<"other/x.ts">>],
      [title |-> "B", category |-> "docs",
       files |-> <<>>, allowed_paths |-> <<>>] }

\* the templates and scopes of the runs that span days
AgedTemplates == {tpl \in Templates : tpl.category = "fix"}
AgedScopes == {"", "pkg", "other"}

DeferredProposal(tpl, at) ==
    [category |-> tpl.category,
     title |-> tpl.title,
     description |-> "d",
     files |-> tpl.files,
     allowed_paths |-> tpl.allowed_paths,
     confidence |-> 80,
     impact_score |-> 5,
     original_scope |-> "src",
     deferredAt |-> at]

NoProposal == DeferredProposal([title |-> "", category |-> "", files |-> <<>>, allowed_paths |-> <<>>], 0)

----------------------------------------------------------------------------
(* String helpers: String.prototype.startsWith and a regex anchored at $ *)

startsWith(f, prefix) ==
    /\ Len(prefix) <= Len(f)
    /\ SubSeq(f, 1, Len(prefix)) = prefix

EndsWith(s, suffix) ==
    /\ Len(suffix) <= Len(s)
    /\ SubSeq(s, Len(s) - Len(suffix) + 1, Len(s)) = suffix

\* s.replace(/<suffix>$/, '')
StripSuffix(s, suffix) ==
    IF EndsWith(s, suffix) THEN SubSeq(s, 1, Len(s) - Len(suffix)) ELSE s

----------------------------------------------------------------------------
(* readRunState / writeRunState *)

\* parsed.<name> ?? dflt
Field(parsed, name, dflt) ==
    IF name \in DOMAIN parsed THEN parsed[name] ELSE dflt

\* { ...DEFAULT_STATE }: a shallow copy, the numbers copied and the array
\* deferredProposals shared with DEFAULT_STATE
DefaultCopy ==
    [DEFAULT_STATE EXCEPT !.deferredProposals = defaultProposals]

\* whether readRunState takes one of its two return { ...DEFAULT_STATE }
readsDefault(f) ==
    ~f.dir \/ f.kind = "absent" \/ f.kind = "corrupt"

readRunState(f) ==
    IF ~f.dir \/ f.kind = "absent" THEN DefaultCopy
    ELSE IF f.kind = "corrupt" THEN DefaultCopy
    ELSE [totalCycles |-> Field(f.json, "totalCycles", 0),
          lastDocsAuditCycle |-> Field(f.json, "lastDocsAuditCycle", 0),
          lastRunAt |-> Field(f.json, "lastRunAt", 0),
          deferredProposals |-> Field(f.json, "deferredProposals", <<>>)]

writeRunState(f, state) ==
    [dir |-> TRUE, kind |-> "json", json |-> state]

\* a slip: the failure is swallowed, as in a write wrapped in try / catch
writeFails_Swallowed == FALSE

\* whether fs.writeFileSync (or fs.mkdirSync before it) throws
writeFails == disk # "ok"

\* what the failed write leaves: nothing is touched when permission is
\* denied; on a full disk the file has been opened for writing, and is left
\* truncated
failedWrite(f) ==
    IF disk = "full"
    THEN [dir |-> TRUE, kind |-> "corrupt", json |-> DEFAULT_STATE]
    ELSE f

----------------------------------------------------------------------------
(* recordCycle, isDocsAuditDue, recordDocsAudit *)

\* a slip: the time is recorded, the counter is not incremented
cycleRecorded_NoIncrement(state, t) ==
    [state EXCEPT !.lastRunAt = t]

\* a slip: the cycle is recorded on a state without its backlog
cycleRecorded_DropsBacklog(state, t) ==
    [state EXCEPT !.totalCycles = @ + 1, !.lastRunAt = t,
                  !.deferredProposals = <<>>]

\* state.totalCycles += 1; state.lastRunAt = Date.now()
cycleRecorded(state, t) ==
    [state EXCEPT !.totalCycles = @ + 1, !.lastRunAt = t]

\* a slip: > for >=
auditDue_Strict(state, interval) ==
    (state.totalCycles - state.lastDocsAuditCycle) > interval

\* (state.totalCycles - state.lastDocsAuditCycle) >= interval
auditDue(state, interval) ==
    (state.totalCycles - state.lastDocsAuditCycle) >= interval

\* a slip: the audit is recorded as of the cycle to come
docsAuditRecorded_NextCycle(state) ==
    [state EXCEPT !.lastDocsAuditCycle = state.totalCycles + 1]

\* a slip: the baseline is left where it was
docsAuditRecorded_Unchanged(state) ==
    state

\* a slip: the baseline is put back to 0 instead of the current count
docsAuditRecorded_Zero(state) ==
    [state EXCEPT !.lastDocsAuditCycle = 0]

\* state.lastDocsAuditCycle = state.totalCycles
docsAuditRecorded(state) ==
    [state EXCEPT !.lastDocsAuditCycle = state.totalCycles]

----------------------------------------------------------------------------
(* deferProposal, popDeferredForScope *)

\* a slip: only the head of the backlog is compared
hasTitle_FirstOnly(dps, title) ==
    Len(dps) > 0 /\ dps[1].title = title

\* state.deferredProposals.some(d => d.title === proposal.title)
hasTitle(dps, title) ==
    \E i \in 1..Len(dps) : dps[i].title = title

\* a slip: the single trailing * is not stripped
normalizedScope_NoSingleStar(scope) ==
    StripSuffix(StripSuffix(scope, "**"), "/")

\* scope.replace(/\*\*$/, '').replace(/\*$/, '').replace(/\/$/, '')
normalizedScope(scope) ==
    StripSuffix(StripSuffix(StripSuffix(scope, "**"), "*"), "/")

\* now - dp.deferredAt > MAX_DEFERRED_AGE_MS
isStale(dp, t) ==
    t - dp.deferredAt > MAX_DEFERRED_AGE_MS

\* a slip: allowed_paths takes precedence over files
effectiveFiles_AllowedFirst(dp) ==
    IF Len(dp.allowed_paths) > 0 THEN dp.allowed_paths ELSE dp.files

\* dp.files.length > 0 ? dp.files : dp.allowed_paths
effectiveFiles(dp) ==
    IF Len(dp.files) > 0 THEN dp.files ELSE dp.allowed_paths

\* f.startsWith(normalizedScope) || f.startsWith(normalizedScope + '/')
pathInScope(f, ns) ==
    startsWith(f, ns) \/ startsWith(f, ns \o "/")

\* !normalizedScope || files.length === 0 || files.every(...)
inScope(dp, ns) ==
    LET files == effectiveFiles(dp)
    IN  \/ ns = ""
        \/ Len(files) = 0
        \/ \A i \in 1..Len(files) : pathInScope(files[i], ns)

\* a slip: the scope test comes first, so a stale proposal in scope is returned
popStep_ScopeFirst(acc, dp, t, ns) ==
    IF inScope(dp, ns) THEN [acc EXCEPT !.matched = Append(@, dp)]
    ELSE IF isStale(dp, t) THEN acc
    ELSE [acc EXCEPT !.remaining = Append(@, dp)]

\* one iteration of the loop over state.deferredProposals, on accumulator
\* acc = [matched, remaining]
popStep(acc, dp, t, ns) ==
    IF isStale(dp, t) THEN acc
    ELSE IF inScope(dp, ns)
         THEN [acc EXCEPT !.matched = Append(@, dp)]
         ELSE [acc EXCEPT !.remaining = Append(@, dp)]

\* the whole loop, from element i on
RECURSIVE popLoop(_, _, _, _, _)
popLoop(dps, i, acc, t, ns) ==
    IF i > Len(dps) THEN acc
    ELSE popLoop(dps, i + 1, popStep(acc, dps[i], t, ns), t, ns)

\* a slip: the file is written only when something matched
popChanged_MatchedOnly(acc, dps) ==
    Len(acc.matched) > 0

\* a slip: the file is written on every call
popChanged_Always(acc, dps) ==
    TRUE

\* matched.length > 0 || remaining.length !== state.deferredProposals.length
popChanged(acc, dps) ==
    Len(acc.matched) > 0 \/ Len(acc.remaining) # Len(dps)

\* what a call popDeferredForScope(root, scope) made at time t on the state
\* it read computes: the proposals it returns, and the backlog it leaves
popResult(state, t, scope) ==
    LET acc == popLoop(state.deferredProposals, 1,
                       [matched |-> <<>>, remaining |-> <<>>],
                       t, normalizedScope(scope))
        changed == popChanged(acc, state.deferredProposals)
    IN  [matched |-> acc.matched,
         changed |-> changed,
         state |-> IF changed
                   THEN [state EXCEPT !.deferredProposals = acc.remaining]
                   ELSE state]

\* a stored proposal as JSON.parse gives it when its files field is missing
withoutFiles(dp) ==
    [k \in DOMAIN dp \ {"files"} |-> dp[k]]

\* dp.files.length (and files.length after it) on an entry whose field is
\* missing: a TypeError, raised outside any try block
entryThrows(dp, ns) ==
    "files" \notin DOMAIN dp

\* whether the loop reaches such an entry: the stale ones are skipped first
popThrows(state, t, ns) ==
    \E i \in 1..Len(state.deferredProposals) :
        /\ ~isStale(state.deferredProposals[i], t)
        /\ entryThrows(state.deferredProposals[i], ns)

----------------------------------------------------------------------------
(* Project guidelines (guidelines.ts): loadGuidelines, readGuidelinesFile,  *)
(* searchPaths.  A file is absent, present but unreadable, or readable with *)
(* a content of len characters; a content is known by the file it comes     *)
(* from and its length.                                                     *)

CLAUDE_PATHS == <<"CLAUDE.md">>

CODEX_PATHS == <<"AGENTS.md">>

MAX_CHARS == 4000

\* the files of the model: the two searched ones and one for customPath
GuidelinePaths == {"CLAUDE.md", "AGENTS.md", "notes.md"}

\* lengths on both sides of the limit
Lengths == {0, MAX_CHARS, MAX_CHARS + 1}

NoGuidelines == [kind |-> "absent", len |-> 0]

GuidelineFiles ==
    {NoGuidelines, [kind |-> "unreadable", len |-> 0]}
        \cup {[kind |-> "file", len |-> n] : n \in Lengths}

\* opts.backend: left out, or one of the two backends
Backends == {"undefined", "claude", "codex"}

\* opts.customPath: false, null or left out, or a path
CustomPaths ==
    {[is |-> "false"], [is |-> "null"], [is |-> "undefined"],
     [is |-> "string", path |-> "notes.md"]}

Null == [is |-> "null"]

\* content.slice(0, MAX_CHARS) + '\n\n[truncated]' when content.length
\* exceeds MAX_CHARS
truncated(rel, len) ==
    IF len > MAX_CHARS
    THEN [of |-> rel, chars |-> MAX_CHARS, marker |-> TRUE]
    ELSE [of |-> rel, chars |-> len, marker |-> FALSE]

readGuidelinesFile(rel) ==
    IF gfiles[rel].kind = "absent" THEN Null
    ELSE IF gfiles[rel].kind = "unreadable" THEN Null
    ELSE [is |-> "guidelines",
          content |-> truncated(rel, gfiles[rel].len),
          source |-> rel,
          loadedAt |-> now]

\* the first path of the list that readGuidelinesFile can read
RECURSIVE searchPaths(_)
searchPaths(paths) ==
    IF paths = <<>> THEN Null
    ELSE IF readGuidelinesFile(Head(paths)) # Null
         THEN readGuidelinesFile(Head(paths))
         ELSE searchPaths(Tail(paths))

\* a slip: the other backend's file is never tried
guidelinesLoaded_PrimaryOnly(backend, customPath) ==
    IF customPath.is = "false" THEN Null
    ELSE IF customPath.is = "string" THEN readGuidelinesFile(customPath.path)
    ELSE searchPaths(IF backend = "codex" THEN CODEX_PATHS ELSE CLAUDE_PATHS)

\* what loadGuidelines(repoRoot, {backend, customPath}) returns
guidelinesLoaded(backend, customPath) ==
    IF customPath.is = "false" THEN Null
    ELSE IF customPath.is = "string" THEN readGuidelinesFile(customPath.path)
    ELSE LET primaryPaths == IF backend = "codex" THEN CODEX_PATHS
                             ELSE CLAUDE_PATHS
             fallbackPaths == IF backend = "codex" THEN CLAUDE_PATHS
                              ELSE CODEX_PATHS
         IN  IF searchPaths(primaryPaths) # Null
             THEN searchPaths(primaryPaths)
             ELSE searchPaths(fallbackPaths)

NotLoaded ==
    [op |-> "none", backend |-> "undefined", customPath |-> Null,
     result |-> Null]

----------------------------------------------------------------------------
(* The history record of the last call *)

NoFile == [dir |-> FALSE, kind |-> "absent", json |-> DEFAULT_STATE]

NoOp ==
    [op |-> "init",
     interval |-> 0,
     scope |-> "",
     proposal |-> NoProposal,
     before |-> NoFile,          \* the file system when the call was made
     read |-> DEFAULT_STATE,     \* the state the call's readRunState returned
     due |-> FALSE,              \* isDocsAuditDue's result
     matched |-> <<>>,           \* popDeferredForScope's result
     state |-> DEFAULT_STATE,    \* readRunState's or recordCycle's result
     wrote |-> FALSE,            \* whether the call wrote the file
     threw |-> FALSE]            \* whether the call ended in an exception

\* the record of a call of op that has read the state
Called(op) ==
    [NoOp EXCEPT !.op = op, !.before = fs, !.read = readRunState(fs)]

----------------------------------------------------------------------------
(* The operations, one action per call *)

\* a process that runs no operation: its position, the operation and its
\* arguments, the state it read, what it returned, and its rank among the
\* writes of the round (0 when it has not written)
IdleProc ==
    [pc |-> "idle", op |-> "", proposal |-> NoProposal, scope |-> "",
     state |-> DEFAULT_STATE, matched |-> <<>>, order |-> 0]

Init ==
    /\ fs = NoFile
    /\ defaultProposals = <<>>
    /\ disk = "ok"
    /\ now = 0
    /\ ticks = 0
    /\ cycleCalls = 0
    /\ sinceAudit = 0
    /\ lastOp = NoOp
    /\ procs = [p \in {1, 2} |-> IdleProc]
    /\ gfiles = [p \in GuidelinePaths |-> NoGuidelines]
    /\ loaded = NotLoaded

\* a caller reads the state
readRunStateCall ==
    /\ lastOp' = [Called("readRunState") EXCEPT !.state = readRunState(fs)]
    /\ UNCHANGED <<fs, defaultProposals, now, ticks, cycleCalls, sinceAudit>>
    /\ UNCHANGED elsewhere

recordCycle ==
    /\ cycleCalls < MaxCycles
    /\ LET state == readRunState(fs)
           next == cycleRecorded(state, now)
       IN  IF writeFails
           THEN /\ fs' = failedWrite(fs)
                /\ lastOp' = [Called("recordCycle") EXCEPT !.threw = TRUE]
                /\ UNCHANGED <<cycleCalls, sinceAudit>>
           ELSE /\ fs' = writeRunState(fs, next)
                /\ lastOp' = [Called("recordCycle") EXCEPT !.state = next,
                                                           !.wrote = TRUE]
                /\ cycleCalls' = cycleCalls + 1
                /\ sinceAudit' = sinceAudit + 1
    /\ UNCHANGED <<defaultProposals, now, ticks>>
    /\ UNCHANGED elsewhere

isDocsAuditDue(interval) ==
    /\ LET state == readRunState(fs)
       IN  lastOp' = [Called("isDocsAuditDue") EXCEPT
                          !.interval = interval,
                          !.due = auditDue(state, interval)]
    /\ UNCHANGED <<fs, defaultProposals, now, ticks, cycleCalls, sinceAudit>>
    /\ UNCHANGED elsewhere

recordDocsAudit ==
    /\ LET state == readRunState(fs)
       IN  IF writeFails
           THEN /\ fs' = failedWrite(fs)
                /\ lastOp' = [Called("recordDocsAudit") EXCEPT !.threw = TRUE]
                /\ UNCHANGED sinceAudit
           ELSE /\ fs' = writeRunState(fs, docsAuditRecorded(state))
                /\ lastOp' = [Called("recordDocsAudit") EXCEPT !.wrote = TRUE]
                /\ sinceAudit' = 0
    /\ UNCHANGED <<defaultProposals, now, ticks, cycleCalls>>
    /\ UNCHANGED elsewhere

\* state.deferredProposals.push(proposal): the array is extended in place, so
\* when the state is a copy of DEFAULT_STATE the push reaches the array of
\* DEFAULT_STATE itself
pushedDefaults(f, proposal) ==
    IF readsDefault(f) THEN Append(defaultProposals, proposal)
    ELSE defaultProposals

\* a variant that persists whether or not the backlog changed
deferProposal_AlwaysWrites(proposal) ==
    /\ LET state == readRunState(fs)
           dup == hasTitle(state.deferredProposals, proposal.title)
           dps == IF dup THEN state.deferredProposals
                  ELSE Append(state.deferredProposals, proposal)
       IN  /\ defaultProposals' = IF dup THEN defaultProposals
                                  ELSE pushedDefaults(fs, proposal)
           /\ IF writeFails
              THEN /\ fs' = failedWrite(fs)
                   /\ lastOp' = [Called("deferProposal") EXCEPT
                                     !.proposal = proposal, !.threw = TRUE]
              ELSE /\ fs' = writeRunState(fs,
                              [state EXCEPT !.deferredProposals = dps])
                   /\ lastOp' = [Called("deferProposal") EXCEPT
                                     !.proposal = proposal, !.wrote = TRUE]
    /\ UNCHANGED <<now, ticks, cycleCalls, sinceAudit>>
    /\ UNCHANGED elsewhere

deferProposal(proposal) ==
    /\ LET state == readRunState(fs)
       IN  IF hasTitle(state.deferredProposals, proposal.title)
           THEN /\ fs' = fs
                /\ defaultProposals' = defaultProposals
                /\ lastOp' = [Called("deferProposal") EXCEPT
                                  !.proposal = proposal]
           ELSE /\ defaultProposals' = pushedDefaults(fs, proposal)
                /\ IF writeFails
                   THEN /\ fs' = failedWrite(fs)
                        /\ lastOp' = [Called("deferProposal") EXCEPT
                                          !.proposal = proposal,
                                          !.threw = TRUE]
                   ELSE /\ fs' = writeRunState(fs,
                                   [state EXCEPT !.deferredProposals =
                                                     Append(@, proposal)])
                        /\ lastOp' = [Called("deferProposal") EXCEPT
                                          !.proposal = proposal,
                                          !.wrote = TRUE]
    /\ UNCHANGED <<now, ticks, cycleCalls, sinceAudit>>
    /\ UNCHANGED elsewhere

popDeferredForScope(scope) ==
    /\ LET state == readRunState(fs)
       IN  IF popThrows(state, now, normalizedScope(scope))
           THEN /\ fs' = fs
                /\ lastOp' = [Called("popDeferredForScope") EXCEPT
                                  !.scope = scope, !.threw = TRUE]
           ELSE LET r == popResult(state, now, scope)
                IN  IF r.changed /\ writeFails
                    THEN /\ fs' = failedWrite(fs)
                         /\ lastOp' = [Called("popDeferredForScope") EXCEPT
                                           !.scope = scope, !.threw = TRUE]
                    ELSE /\ fs' = IF r.changed
                                  THEN writeRunState(fs, r.state) ELSE fs
                         /\ lastOp' = [Called("popDeferredForScope") EXCEPT
                                           !.scope = scope,
                                           !.matched = r.matched,
                                           !.wrote = r.changed]
    /\ UNCHANGED <<defaultProposals, now, ticks, cycleCalls, sinceAudit>>
    /\ UNCHANGED elsewhere

----------------------------------------------------------------------------
(* The environment: time passes; the process is replaced; the file is      *)
(* deleted, damaged or edited; the disk stops taking writes                *)

Tick ==
    /\ ticks < MaxTicks
    /\ now' = now + TickStep(ticks)
    /\ ticks' = ticks + 1
    /\ lastOp' = [NoOp EXCEPT !.op = "tick", !.before = fs]
    /\ UNCHANGED <<fs, defaultProposals, cycleCalls, sinceAudit>>
    /\ UNCHANGED elsewhere

DeleteFile ==
    /\ fs.dir /\ fs.kind # "absent"
    /\ fs' = [fs EXCEPT !.kind = "absent", !.json = DEFAULT_STATE]
    /\ lastOp' = [NoOp EXCEPT !.op = "delete", !.before = fs]
    /\ UNCHANGED <<defaultProposals, now, ticks, cycleCalls, sinceAudit>>
    /\ UNCHANGED elsewhere

\* the file's content stops being parsable JSON (a truncated write, an edit)
CorruptFile ==
    /\ fs.dir /\ fs.kind = "json"
    /\ fs' = [fs EXCEPT !.kind = "corrupt", !.json = DEFAULT_STATE]
    /\ lastOp' = [NoOp EXCEPT !.op = "corrupt", !.before = fs]
    /\ UNCHANGED <<defaultProposals, now, ticks, cycleCalls, sinceAudit>>
    /\ UNCHANGED elsewhere

\* the process ends and the next call is made by a new one, whose
\* DEFAULT_STATE is as the module defines it
Restart ==
    /\ defaultProposals # <<>>
    /\ defaultProposals' = <<>>
    /\ lastOp' = [NoOp EXCEPT !.op = "restart", !.before = fs]
    /\ UNCHANGED <<fs, now, ticks, cycleCalls, sinceAudit>>
    /\ UNCHANGED elsewhere

\* the file is edited by hand and stays valid JSON, but one stored proposal
\* loses its files field
EditFile ==
    /\ fs.dir /\ fs.kind = "json"
    /\ \E i \in 1..Len(fs.json.deferredProposals) :
          /\ "files" \in DOMAIN fs.json.deferredProposals[i]
          /\ fs' = [fs EXCEPT !.json.deferredProposals[i] = withoutFiles(@)]
    /\ lastOp' = [NoOp EXCEPT !.op = "edit", !.before = fs]
    /\ UNCHANGED <<defaultProposals, now, ticks, cycleCalls, sinceAudit>>
    /\ UNCHANGED elsewhere

\* the disk fills up, the directory loses its write permission, or either
\* is put right
SetDisk(d) ==
    /\ disk # d
    /\ disk' = d
    /\ lastOp' = [NoOp EXCEPT !.op = "disk", !.before = fs]
    /\ UNCHANGED <<fs, defaultProposals, now, ticks, cycleCalls, sinceAudit,
                   procs, gfiles, loaded>>

\* a caller loads the guidelines
loadGuidelines(backend, customPath) ==
    /\ loaded' = [op |-> "loadGuidelines", backend |-> backend,
                  customPath |-> customPath,
                  result |-> guidelinesLoaded(backend, customPath)]
    /\ UNCHANGED <<fs, defaultProposals, disk, now, ticks, cycleCalls,
                   sinceAudit, lastOp, procs, gfiles>>

\* a guidelines file is written, removed or made unreadable
SetGuidelines(rel, file) ==
    /\ gfiles[rel] # file
    /\ gfiles' = [gfiles EXCEPT ![rel] = file]
    /\ loaded' = NotLoaded
    /\ UNCHANGED <<fs, defaultProposals, disk, now, ticks, cycleCalls,
                   sinceAudit, lastOp, procs>>

----------------------------------------------------------------------------
(* Two processes on one root.  Each runs one operation at a time, in two    *)
(* steps: it reads the state (readRunState), then computes and writes       *)
(* (writeRunState); the other process may take its steps in between.  Each  *)
(* operation is run by a process of its own, whose DEFAULT_STATE is fresh.  *)

\* recordCycle is started at most MaxRaceCycles times by the two processes
MaxRaceCycles == 3

\* the operations raced, with their arguments
RaceCalls ==
    {[op |-> "recordCycle", proposal |-> NoProposal, scope |-> ""],
     [op |-> "recordDocsAudit", proposal |-> NoProposal, scope |-> ""]}
    \cup {[op |-> "deferProposal", proposal |-> DeferredProposal(tpl, 0),
           scope |-> ""] : tpl \in AgedTemplates}
    \cup {[op |-> "popDeferredForScope", proposal |-> NoProposal,
           scope |-> s] : s \in {"", "pkg"}}

\* the number of writes made in the round so far
Written == Cardinality({q \in DOMAIN procs : procs[q].order > 0})

\* the first step of an operation: const state = readRunState(repoRoot)
RaceRead(p, call) ==
    /\ procs[p].pc = "idle"
    /\ call.op = "recordCycle" => cycleCalls < MaxRaceCycles
    /\ procs' = [procs EXCEPT ![p] =
                    [IdleProc EXCEPT !.pc = "read", !.op = call.op,
                                     !.proposal = call.proposal,
                                     !.scope = call.scope,
                                     !.state = readRunState(fs)]]
    /\ cycleCalls' = IF call.op = "recordCycle" THEN cycleCalls + 1
                     ELSE cycleCalls
    /\ UNCHANGED <<fs, defaultProposals, disk, now, ticks, sinceAudit,
                   lastOp, gfiles, loaded>>

\* a variant in which the state is read again at the time of the write
raceOutcome_ReadAgain(p) ==
    LET me == [procs[p] EXCEPT !.state = readRunState(fs)]
        pop == popResult(me.state, now, me.scope)
    IN  IF me.op = "recordCycle"
        THEN [state |-> cycleRecorded(me.state, now), writes |-> TRUE,
              matched |-> <<>>]
        ELSE IF me.op = "recordDocsAudit"
        THEN [state |-> docsAuditRecorded(me.state), writes |-> TRUE,
              matched |-> <<>>]
        ELSE IF me.op = "deferProposal"
        THEN IF hasTitle(me.state.deferredProposals, me.proposal.title)
             THEN [state |-> me.state, writes |-> FALSE, matched |-> <<>>]
             ELSE [state |-> [me.state EXCEPT !.deferredProposals =
                                                  Append(@, me.proposal)],
                   writes |-> TRUE, matched |-> <<>>]
        ELSE [state |-> pop.state, writes |-> pop.changed,
              matched |-> pop.matched]

\* the state the operation of process p computes from the state it read,
\* whether it writes it, and what it returns
raceOutcome(p) ==
    LET me == procs[p]
        pop == popResult(me.state, now, me.scope)
    IN  IF me.op = "recordCycle"
        THEN [state |-> cycleRecorded(me.state, now), writes |-> TRUE,
              matched |-> <<>>]
        ELSE IF me.op = "recordDocsAudit"
        THEN [state |-> docsAuditRecorded(me.state), writes |-> TRUE,
              matched |-> <<>>]
        ELSE IF me.op = "deferProposal"
        THEN IF hasTitle(me.state.deferredProposals, me.proposal.title)
             THEN [state |-> me.state, writes |-> FALSE, matched |-> <<>>]
             ELSE [state |-> [me.state EXCEPT !.deferredProposals =
                                                  Append(@, me.proposal)],
                   writes |-> TRUE, matched |-> <<>>]
        ELSE [state |-> pop.state, writes |-> pop.changed,
              matched |-> pop.matched]

\* the rest of the operation: the computation on the state read, the write
\* if there is one, the return
RaceWrite(p) ==
    /\ procs[p].pc = "read"
    /\ LET out == raceOutcome(p)
       IN  /\ fs' = IF out.writes THEN writeRunState(fs, out.state) ELSE fs
           /\ procs' = [procs EXCEPT ![p] =
                           [@ EXCEPT !.pc = "done",
                                     !.matched = out.matched,
                                     !.order = IF out.writes
                                               THEN Written + 1 ELSE 0]]
    /\ UNCHANGED <<defaultProposals, disk, now, ticks, cycleCalls,
                   sinceAudit, lastOp, gfiles, loaded>>

\* both processes have returned; the next operations are run by new ones
RaceReturn ==
    /\ \A p \in DOMAIN procs : procs[p].pc # "read"
    /\ \E p \in DOMAIN procs : procs[p].pc = "done"
    /\ procs' = [p \in DOMAIN procs |-> IdleProc]
    /\ UNCHANGED <<fs, defaultProposals, disk, now, ticks, cycleCalls,
                   sinceAudit, lastOp, gfiles, loaded>>

----------------------------------------------------------------------------
(* Specifications *)

\* the calls of one process, with intervals K, proposals made from the
\* templates T and scopes S
CallsOf(K, T, S) ==
    \/ readRunStateCall
    \/ recordCycle
    \/ \E k \in K : isDocsAuditDue(k)
    \/ recordDocsAudit
    \/ \E tpl \in T : deferProposal(DeferredProposal(tpl, now))
    \/ \E scope \in S : popDeferredForScope(scope)

Calls == CallsOf(Intervals, Templates, Scopes)

\* calls one at a time over days, the file touched by nothing else
NextIntact ==
    \/ CallsOf(Intervals, AgedTemplates, AgedScopes)
    \/ Tick
    \/ Restart

SpecIntact == Init /\ [][NextIntact]_vars

\* calls one at a time within one instant of the clock, the file deleted or
\* damaged between calls
Next ==
    \/ Calls
    \/ Restart
    \/ DeleteFile
    \/ CorruptFile

Spec == Init /\ [][Next]_vars

\* calls one at a time, the disk refusing writes at times and the stored
\* proposals edited by hand
NextIO ==
    \/ CallsOf({3}, AgedTemplates, AgedScopes)
    \/ \E d \in {"ok", "denied", "full"} : SetDisk(d)
    \/ EditFile
    \/ Restart

SpecIO == Init /\ [][NextIO]_vars


\* the guidelines loaded again and again while the files change
NextGuidelines ==
    \/ \E backend \in Backends, customPath \in CustomPaths :
          loadGuidelines(backend, customPath)
    \/ \E rel \in GuidelinePaths, file \in GuidelineFiles :
          SetGuidelines(rel, file)

SpecGuidelines == Init /\ [][NextGuidelines]_vars

\* two processes, the steps of their operations interleaved
NextRace ==
    \/ \E p \in DOMAIN procs, call \in RaceCalls : RaceRead(p, call)
    \/ \E p \in DOMAIN procs : RaceWrite(p)
    \/ RaceReturn

SpecRace == Init /\ [][NextRace]_vars

----------------------------------------------------------------------------
(* Vocabulary of the properties *)

\* the state the last call read, and the state a read returns now
Read == lastOp.read
Stored == readRunState(fs)

\* whether the file holds a state, and the backlog it holds
HoldsState(f) == f.dir /\ f.kind = "json"
FileBacklog(f) == IF HoldsState(f) THEN f.json.deferredProposals ELSE <<>>

\* the totalCycles the file holds; none is held while the file is absent
PersistedTotalCycles(f) ==
    IF f.dir /\ f.kind = "json" THEN f.json.totalCycles ELSE 0

Mutators == {"recordCycle", "recordDocsAudit", "deferProposal", "popDeferredForScope"}

----------------------------------------------------------------------------
(* C1 -- With the file touched by the store's calls alone, the persisted    *)
(* totalCycles equals the number of recordCycle calls completed so far:     *)
(* each recordCycle returns and persists the value persisted before the     *)
(* call plus 1, and no other call changes the persisted value.              *)
C1_TotalCyclesCountsCalls ==
    /\ PersistedTotalCycles(fs) = cycleCalls
    /\ fs.kind = "absent" => cycleCalls = 0
    /\ lastOp.op = "recordCycle" =>
          /\ lastOp.state.totalCycles = PersistedTotalCycles(lastOp.before) + 1
          /\ PersistedTotalCycles(fs) = lastOp.state.totalCycles
    /\ lastOp.op # "recordCycle" =>
          PersistedTotalCycles(fs) = PersistedTotalCycles(lastOp.before)

\* two cycles recorded, with a proposal deferred along the way
C1_Witness ==
    /\ lastOp.op = "recordCycle"
    /\ cycleCalls = 2
    /\ lastOp.state.totalCycles = 2
    /\ Len(Stored.deferredProposals) > 0

----------------------------------------------------------------------------
(* C2 -- In every reachable state, deletions and damage of the file         *)
(* included, the state readRunState returns has                             *)
(* totalCycles - lastDocsAuditCycle >= 0.                                   *)
C2_AuditNeverAhead ==
    Stored.totalCycles - Stored.lastDocsAuditCycle >= 0

\* an audit recorded after the file was lost and the count began again
C2_Witness ==
    /\ lastOp.op = "recordDocsAudit"
    /\ Stored.lastDocsAuditCycle = 1
    /\ Stored.totalCycles = 1
    /\ cycleCalls = 2

----------------------------------------------------------------------------
(* C3 -- isDocsAuditDue(root, k) returns true exactly when                  *)
(* totalCycles - lastDocsAuditCycle >= k in the state readRunState returns, *)
(* and leaves the file system as it was: an absent file stays absent, an    *)
(* unparsable one unparsable, the backlog as stored.                        *)
C3_DueIffIntervalReached ==
    lastOp.op = "isDocsAuditDue" =>
        /\ lastOp.due <=> (Read.totalCycles - Read.lastDocsAuditCycle >= lastOp.interval)
        /\ fs = lastOp.before
        /\ ~lastOp.wrote

\* the check answers true at exactly the interval, with a backlog stored
C3_Witness ==
    /\ lastOp.op = "isDocsAuditDue"
    /\ lastOp.interval = 2
    /\ lastOp.due
    /\ Read.totalCycles - Read.lastDocsAuditCycle = 2
    /\ Len(Stored.deferredProposals) > 0

----------------------------------------------------------------------------
(* C4 -- as claimed: for every interval k, isDocsAuditDue(root, k) called   *)
(* right after recordDocsAudit(root) returns is false.                      *)
C4_Original ==
    [][(lastOp.op = "recordDocsAudit" /\ lastOp'.op = "isDocsAuditDue")
          => ~lastOp'.due]_vars

(* C4 -- as amended: for every interval k >= 1, isDocsAuditDue(root, k)     *)
(* called right after recordDocsAudit(root) returns is false.               *)
C4_FalseRightAfterAudit ==
    [][(lastOp.op = "recordDocsAudit" /\ lastOp'.op = "isDocsAuditDue"
          /\ lastOp'.interval >= 1)
          => ~lastOp'.due]_vars

\* the check answers false for interval 2 on a state whose audit was recorded
\* at cycle 2, where it answered true before the audit
C4_Witness ==
    /\ lastOp.op = "isDocsAuditDue"
    /\ lastOp.interval = 2
    /\ ~lastOp.due
    /\ Read.totalCycles = 2
    /\ Read.lastDocsAuditCycle = 2

----------------------------------------------------------------------------
(* More vocabulary: ages, scopes as the claims word them *)

SevenDaysMs == 604800000

\* a proposal older than seven days at time t
Expired(dp, t) == t - dp.deferredAt > SevenDaysMs

Items(seq) == {seq[i] : i \in 1..Len(seq)}

\* the subsequence of seq a call at time t with normalized scope ns is to
\* return (match = TRUE) or to leave stored (match = FALSE)
FreshPart(seq, t, ns, match) ==
    LET Keep(dp) == ~Expired(dp, t) /\ (inScope(dp, ns) <=> match)
    IN  SelectSeq(seq, Keep)

\* a path lies under scope ns: it is ns itself, or it continues ns after a /
Under(f, ns) == f = ns \/ startsWith(f, ns \o "/")

PlainBases == {b \in Bases : ~EndsWith(b, "*") /\ ~EndsWith(b, "/")}

----------------------------------------------------------------------------
(* C5 -- as claimed: when readRunState, recordCycle, recordDocsAudit,       *)
(* deferProposal or popDeferredForScope completes at time t, the persisted  *)
(* backlog holds no proposal with t - deferredAt > 604,800,000 ms, and the  *)
(* call returns none.                                                       *)
C5_Original ==
    lastOp.op \in Mutators \cup {"readRunState"} =>
        /\ \A dp \in Items(Stored.deferredProposals) : ~Expired(dp, now)
        /\ \A dp \in Items(lastOp.matched) : ~Expired(dp, now)
        /\ \A dp \in Items(lastOp.state.deferredProposals) : ~Expired(dp, now)

(* C5 -- as amended: when popDeferredForScope completes at time t, the      *)
(* persisted backlog holds no proposal with t - deferredAt > 604,800,000    *)
(* ms, and the call returns none.                                           *)
C5_PopLeavesNoExpired ==
    lastOp.op = "popDeferredForScope" =>
        /\ \A dp \in Items(Stored.deferredProposals) : ~Expired(dp, now)
        /\ \A dp \in Items(lastOp.matched) : ~Expired(dp, now)

\* a pop that matched nothing and found an expired proposal stored
C5_Witness ==
    /\ lastOp.op = "popDeferredForScope"
    /\ \E dp \in Items(Read.deferredProposals) : Expired(dp, now)
    /\ lastOp.matched = <<>>
    /\ Len(Stored.deferredProposals) = 1

----------------------------------------------------------------------------
(* C6 -- The persisted deferredProposals never holds two proposals with the *)
(* same title.                                                              *)
C6_TitlesUnique ==
    LET dps == Stored.deferredProposals
    IN  \A i, j \in 1..Len(dps) : dps[i].title = dps[j].title => i = j

\* two proposals stored, and a third one with a stored title just refused
C6_Witness ==
    /\ lastOp.op = "deferProposal"
    /\ ~lastOp.wrote
    /\ Len(Stored.deferredProposals) = 2
    /\ lastOp.proposal.title = Stored.deferredProposals[2].title

----------------------------------------------------------------------------
(* C7 -- deferProposal(root, p) called when the stored backlog holds a      *)
(* proposal titled p.title changes nothing: the file system is as before    *)
(* (backlog, counters), the stored proposal stays even when p differs from  *)
(* it, and the file is not written.                                         *)
C7_DuplicateTitleIsNoOp ==
    (/\ lastOp.op = "deferProposal"
     /\ \E dp \in Items(Read.deferredProposals) : dp.title = lastOp.proposal.title)
    => /\ fs = lastOp.before
       /\ ~lastOp.wrote

\* the refused proposal differs from the stored one of its title
C7_Witness ==
    /\ lastOp.op = "deferProposal"
    /\ \E dp \in Items(Read.deferredProposals) :
          /\ dp.title = lastOp.proposal.title
          /\ dp.files # lastOp.proposal.files
          /\ dp.category # lastOp.proposal.category
    /\ Read.totalCycles > 0

----------------------------------------------------------------------------
(* C8 -- popDeferredForScope(root, scope) run at time now on stored backlog *)
(* B returns the non-expired in-scope proposals of B in B's order, leaves   *)
(* stored the non-expired out-of-scope proposals of B in B's order, and     *)
(* neither returns nor leaves stored an expired proposal of B.              *)
C8_PopPartitions ==
    lastOp.op = "popDeferredForScope" =>
        LET B == Read.deferredProposals
            ns == normalizedScope(lastOp.scope)
        IN  /\ lastOp.matched = FreshPart(B, now, ns, TRUE)
            /\ Stored.deferredProposals = FreshPart(B, now, ns, FALSE)
            /\ \A dp \in Items(B) : Expired(dp, now) =>
                  /\ dp \notin Items(lastOp.matched)
                  /\ dp \notin Items(Stored.deferredProposals)

\* of two stored proposals in scope, the expired one is dropped and the other
\* returned
C8_Witness ==
    /\ lastOp.op = "popDeferredForScope"
    /\ Len(Read.deferredProposals) = 2
    /\ Expired(Read.deferredProposals[1], now)
    /\ inScope(Read.deferredProposals[1], normalizedScope(lastOp.scope))
    /\ lastOp.matched = <<Read.deferredProposals[2]>>
    /\ Stored.deferredProposals = <<>>

----------------------------------------------------------------------------
(* C9 -- For a non-empty normalized scope s and a non-expired proposal with *)
(* a non-empty effective path set, popDeferredForScope returns the proposal *)
(* exactly when every path of the set equals s or starts with s + "/".      *)
C9_BoundaryMatch ==
    lastOp.op = "popDeferredForScope" =>
        LET s == normalizedScope(lastOp.scope)
        IN  \A dp \in Items(Read.deferredProposals) :
               (s # "" /\ ~Expired(dp, now) /\ Len(effectiveFiles(dp)) > 0) =>
                  (dp \in Items(lastOp.matched)
                      <=> \A f \in Items(effectiveFiles(dp)) : Under(f, s))

----------------------------------------------------------------------------
(* C10 -- For a base scope b ending in neither "*" nor "/",                 *)
(* popDeferredForScope called with b, b + "/", b + "/*" or b + "/**"        *)
(* normalizes the scope to b, and the four calls return the same proposals  *)
(* and leave the same backlog.                                              *)
C10_ScopeSpellingsAgree ==
    lastOp.op = "popDeferredForScope" =>
        \A b \in PlainBases :
            lastOp.scope \in {b \o suffix : suffix \in Suffixes} =>
                /\ normalizedScope(lastOp.scope) = b
                /\ \A suffix \in Suffixes :
                      LET r == popResult(Read, now, b \o suffix)
                      IN  /\ r.matched = lastOp.matched
                          /\ r.state.deferredProposals = Stored.deferredProposals

\* a call spelled pkg/** that returns one proposal and leaves another
C10_Witness ==
    /\ lastOp.op = "popDeferredForScope"
    /\ lastOp.scope = "pkg/**"
    /\ Len(lastOp.matched) = 1
    /\ Len(Stored.deferredProposals) = 1

----------------------------------------------------------------------------
(* C11 -- popDeferredForScope matches a non-expired proposal on its files   *)
(* when files is non-empty, whatever its allowed_paths, and on its          *)
(* allowed_paths when files is empty: it returns the proposal exactly when  *)
(* the normalized scope is empty, or those paths are none, or each of them  *)
(* passes the scope test.  So a proposal with both lists empty is returned  *)
(* for every scope, and every proposal is returned for the empty scope.     *)
C11_MatchedOnFilesElseAllowedPaths ==
    (lastOp.op = "popDeferredForScope" /\ ~lastOp.threw) =>
        LET ns == normalizedScope(lastOp.scope)
        IN  \A dp \in Items(Read.deferredProposals) : ~Expired(dp, now) =>
               LET paths == IF dp.files # <<>> THEN dp.files
                            ELSE dp.allowed_paths
               IN  /\ dp \in Items(lastOp.matched) <=>
                         \/ ns = ""
                         \/ paths = <<>>
                         \/ \A f \in Items(paths) : pathInScope(f, ns)
                   /\ (dp.files = <<>> /\ dp.allowed_paths = <<>>) =>
                         dp \in Items(lastOp.matched)
                   /\ ns = "" => dp \in Items(lastOp.matched)

\* scope pkg returns a proposal whose files lie under pkg and whose
\* allowed_paths do not, together with a proposal that names no path
C11_Witness ==
    /\ lastOp.op = "popDeferredForScope"
    /\ normalizedScope(lastOp.scope) = "pkg"
    /\ Len(lastOp.matched) = 2
    /\ \E dp \in Items(lastOp.matched) :
          /\ dp.files # <<>>
          /\ \E f \in Items(dp.allowed_paths) : ~pathInScope(f, "pkg")
    /\ \E dp \in Items(lastOp.matched) :
          dp.files = <<>> /\ dp.allowed_paths = <<>>

----------------------------------------------------------------------------
(* C12 -- Whenever the file is absent or does not parse, readRunState       *)
(* returns exactly the default state (0, 0, 0, no proposal) and raises      *)
(* nothing, in every operation that calls it, and a recordCycle made then   *)
(* persists totalCycles = 1.                                                *)
C12_DefaultWhenAbsentOrUnparsable ==
    (lastOp.op \in Mutators \cup {"readRunState", "isDocsAuditDue"}
        /\ ~HoldsState(lastOp.before)) =>
        /\ Read = DEFAULT_STATE
        /\ lastOp.op = "readRunState" =>
              lastOp.state = DEFAULT_STATE /\ ~lastOp.threw
        /\ lastOp.op = "recordCycle" => PersistedTotalCycles(fs) = 1

(* C12 -- the part of it that holds: on an absent or unparsable file the    *)
(* three numbers read are 0, nothing is raised, and a recordCycle made then *)
(* persists totalCycles = 1.                                                *)
C12_CountersStartAgain ==
    (lastOp.op \in Mutators \cup {"readRunState", "isDocsAuditDue"}
        /\ ~HoldsState(lastOp.before)) =>
        /\ [Read EXCEPT !.deferredProposals = <<>>] = DEFAULT_STATE
        /\ lastOp.op = "readRunState" => ~lastOp.threw
        /\ lastOp.op = "recordCycle" => PersistedTotalCycles(fs) = 1

\* the file is gone, and the read returns a proposal deferred earlier by
\* the same process
C12_Leftover ==
    /\ lastOp.op = "readRunState"
    /\ lastOp.before.kind = "absent"
    /\ Len(lastOp.state.deferredProposals) = 1
    /\ lastOp.state.totalCycles = 0

----------------------------------------------------------------------------
(* C13 -- No operation of the store ever raises an error to its caller,     *)
(* whether a write fails, the file does not parse, or a stored proposal     *)
(* lacks a field.                                                           *)
C13_NothingRaised ==
    ~lastOp.threw

(* C13 -- the part of it that holds: the operations that only read          *)
(* (readRunState, isDocsAuditDue) raise nothing, whatever the file holds.   *)
C13_ReadsRaiseNothing ==
    lastOp.op \in {"readRunState", "isDocsAuditDue"} => ~lastOp.threw

\* with the disk taking writes, popDeferredForScope raises on a stored
\* proposal that has no files field, and the file stays as it was
C13_MalformedEntryRaises ==
    /\ lastOp.op = "popDeferredForScope"
    /\ lastOp.threw
    /\ disk = "ok"
    /\ fs = lastOp.before
    /\ \E dp \in Items(Read.deferredProposals) : "files" \notin DOMAIN dp

----------------------------------------------------------------------------
(* C14 -- While the disk refuses writes, every call that gets to write the  *)
(* file (recordCycle, recordDocsAudit, a deferProposal whose title is not   *)
(* stored, a popDeferredForScope that returns or prunes a proposal) ends in *)
(* the error and returns nothing, the proposals matched included; the calls *)
(* that do not write end normally, as every call does while the disk takes  *)
(* writes and the stored proposals are well formed.                         *)
WellFormed(state) ==
    \A dp \in Items(state.deferredProposals) : "files" \in DOMAIN dp

\* whether the call recorded in lastOp gets to writeRunState
AttemptsWrite ==
    \/ lastOp.op \in {"recordCycle", "recordDocsAudit"}
    \/ /\ lastOp.op = "deferProposal"
       /\ \A dp \in Items(Read.deferredProposals) :
             dp.title # lastOp.proposal.title
    \/ /\ lastOp.op = "popDeferredForScope"
       /\ \/ \E dp \in Items(Read.deferredProposals) : Expired(dp, now)
          \/ FreshPart(Read.deferredProposals, now,
                       normalizedScope(lastOp.scope), TRUE) # <<>>

C14_WriteFailureIsRaised ==
    (lastOp.op \in Mutators \cup {"readRunState", "isDocsAuditDue"}
        /\ WellFormed(Read)) =>
        /\ lastOp.threw <=> (disk # "ok" /\ AttemptsWrite)
        /\ lastOp.threw =>
              /\ ~lastOp.wrote
              /\ lastOp.matched = <<>>
              /\ lastOp.state = DEFAULT_STATE
              /\ ~HoldsState(fs) \/ fs = lastOp.before

\* permission denied: a pop that matched a stored proposal raises, hands
\* nothing back, and the proposal is still in the file
C14_Witness ==
    /\ lastOp.op = "popDeferredForScope"
    /\ disk = "denied"
    /\ lastOp.threw
    /\ lastOp.matched = <<>>
    /\ FreshPart(Read.deferredProposals, now,
                 normalizedScope(lastOp.scope), TRUE) # <<>>
    /\ fs = lastOp.before
    /\ HoldsState(fs)

----------------------------------------------------------------------------
(* C15 -- loadGuidelines with customPath neither false nor a string returns *)
(* the backend's own file (AGENTS.md for codex, CLAUDE.md otherwise) when   *)
(* it exists and can be read, else the other backend's file when that one   *)
(* exists and can be read, else nothing; with customPath false it returns   *)
(* nothing whatever the files; with a string customPath it returns that     *)
(* file when it exists and can be read and nothing otherwise.               *)
Readable(rel) == gfiles[rel].kind = "file"

\* the call returned the file rel
Returned(rel) ==
    /\ loaded.result # Null
    /\ loaded.result.source = rel
    /\ loaded.result.content.of = rel

C15_PreferredThenFallback ==
    loaded.op = "loadGuidelines" =>
        LET preferred == IF loaded.backend = "codex" THEN "AGENTS.md"
                         ELSE "CLAUDE.md"
            other == IF loaded.backend = "codex" THEN "CLAUDE.md"
                     ELSE "AGENTS.md"
            custom == loaded.customPath
        IN  /\ custom.is = "false" => loaded.result = Null
            /\ custom.is = "string" =>
                  IF Readable(custom.path) THEN Returned(custom.path)
                  ELSE loaded.result = Null
            /\ custom.is \notin {"false", "string"} =>
                  IF Readable(preferred) THEN Returned(preferred)
                  ELSE IF Readable(other) THEN Returned(other)
                  ELSE loaded.result = Null

\* backend codex, AGENTS.md unreadable, CLAUDE.md returned in its place
C15_Witness ==
    /\ loaded.op = "loadGuidelines"
    /\ loaded.backend = "codex"
    /\ loaded.customPath.is = "undefined"
    /\ gfiles["AGENTS.md"].kind = "unreadable"
    /\ gfiles["notes.md"].kind = "file"
    /\ Returned("CLAUDE.md")

----------------------------------------------------------------------------
(* C16 -- popDeferredForScope writes the file exactly when it returns a     *)
(* proposal or the backlog it read holds an expired one.  When it does not  *)
(* write, the file system is as before the call: an absent file is still    *)
(* absent, an unparsable one still unparsable.  When it writes, the file    *)
(* holds totalCycles, lastDocsAuditCycle and lastRunAt as the call read     *)
(* them.                                                                    *)
C16_PopWritesOnlyOnChange ==
    (lastOp.op = "popDeferredForScope" /\ ~lastOp.threw) =>
        LET pruned == \E dp \in Items(Read.deferredProposals) :
                          Expired(dp, now)
        IN  /\ lastOp.wrote <=> (lastOp.matched # <<>> \/ pruned)
            /\ ~lastOp.wrote => fs = lastOp.before
            /\ lastOp.wrote =>
                  /\ HoldsState(fs)
                  /\ fs.json.totalCycles = Read.totalCycles
                  /\ fs.json.lastDocsAuditCycle = Read.lastDocsAuditCycle
                  /\ fs.json.lastRunAt = Read.lastRunAt

\* a pop that returns nothing writes the file because a stored proposal had
\* expired; the counters, which are not 0, are kept
C16_Witness ==
    /\ lastOp.op = "popDeferredForScope"
    /\ lastOp.matched = <<>>
    /\ lastOp.wrote
    /\ Len(Read.deferredProposals) = 2
    /\ Len(FileBacklog(fs)) = 1
    /\ fs.json.totalCycles = 2
    /\ fs.json.lastDocsAuditCycle = 1
    /\ fs.json.lastRunAt > 0

\* a pop that returns nothing and prunes nothing leaves an unparsable file
\* unparsable
C16_UnparsableStays ==
    /\ lastOp.op = "popDeferredForScope"
    /\ ~lastOp.wrote
    /\ fs.kind = "corrupt"
    /\ Len(Read.deferredProposals) = 1

----------------------------------------------------------------------------
(* C17 -- With the file touched by the store's calls alone and k >= 1,      *)
(* isDocsAuditDue(root, k) is true exactly when at least k recordCycle      *)
(* calls have completed since the last recordDocsAudit (since the start,    *)
(* from an absent file, when there was none): false until the k-th cycle    *)
(* after an audit, true from then on until the next audit, whatever other   *)
(* calls are made in between.  A driver that audits as soon as the check is *)
(* true therefore audits every k cycles, first after the k-th.              *)
C17_DueEveryKCycles ==
    (lastOp.op = "isDocsAuditDue" /\ lastOp.interval >= 1) =>
        (lastOp.due <=> sinceAudit >= lastOp.interval)

\* interval 1: an audit after the first cycle, one more cycle, and the check
\* is true again
C17_Witness ==
    /\ lastOp.op = "isDocsAuditDue"
    /\ lastOp.interval = 1
    /\ lastOp.due
    /\ sinceAudit = 1
    /\ cycleCalls = 2
    /\ Read.lastDocsAuditCycle = 1

\* interval 2: one cycle after the audit is not enough
C17_NotYet ==
    /\ lastOp.op = "isDocsAuditDue"
    /\ lastOp.interval = 2
    /\ ~lastOp.due
    /\ sinceAudit = 1
    /\ Read.lastDocsAuditCycle = 1

----------------------------------------------------------------------------
(* C18 -- When the operations of two processes interleave, the file holds   *)
(* what the last writer computed from the state it had read, whatever the   *)
(* other process wrote in between; and two racing recordCycle calls, the    *)
(* first of which read totalCycles = c, leave c + 1 or c + 2, never less    *)
(* and never more.                                                          *)
Racers == DOMAIN procs

\* the file holds the state process p read, changed by p's operation alone
HoldsUpdateOf(p) ==
    LET read == procs[p].state
        file == fs.json
    IN  /\ HoldsState(fs)
        /\ procs[p].op = "recordCycle" =>
              /\ file.totalCycles = read.totalCycles + 1
              /\ file.lastDocsAuditCycle = read.lastDocsAuditCycle
              /\ file.deferredProposals = read.deferredProposals
        /\ procs[p].op = "recordDocsAudit" =>
              /\ file.totalCycles = read.totalCycles
              /\ file.lastDocsAuditCycle = read.totalCycles
              /\ file.deferredProposals = read.deferredProposals
        /\ procs[p].op = "deferProposal" =>
              /\ file.totalCycles = read.totalCycles
              /\ file.lastDocsAuditCycle = read.lastDocsAuditCycle
              /\ file.deferredProposals =
                    Append(read.deferredProposals, procs[p].proposal)
        /\ procs[p].op = "popDeferredForScope" =>
              /\ file.totalCycles = read.totalCycles
              /\ file.lastDocsAuditCycle = read.lastDocsAuditCycle
              /\ file.deferredProposals =
                    FreshPart(read.deferredProposals, now,
                              normalizedScope(procs[p].scope), FALSE)

C18_LastWriterWins ==
    /\ \A p \in Racers :
          (procs[p].order > 0 /\ procs[p].order = Written) => HoldsUpdateOf(p)
    /\ (\A p \in Racers : procs[p].pc = "done" /\ procs[p].op = "recordCycle")
          => \E p \in Racers :
                LET c == procs[p].state.totalCycles
                IN  /\ \A q \in Racers : c <= procs[q].state.totalCycles
                    /\ fs.json.totalCycles \in {c + 1, c + 2}

\* two recordCycle calls that both read totalCycles = 1 have both returned,
\* and the file holds 2: one cycle is lost
C18_Witness ==
    /\ \A p \in Racers :
          /\ procs[p].pc = "done"
          /\ procs[p].op = "recordCycle"
          /\ procs[p].state.totalCycles = 1
    /\ fs.json.totalCycles = 2
    /\ cycleCalls = 3

\* a deferProposal has appended and written, and the recordCycle that had
\* read before it wrote last: the proposal is in no file
C18_ProposalErased ==
    \E p, q \in Racers :
        /\ procs[p].pc = "done" /\ procs[p].op = "deferProposal"
        /\ procs[p].order = 1
        /\ procs[q].pc = "done" /\ procs[q].op = "recordCycle"
        /\ procs[q].order = 2
        /\ FileBacklog(fs) = <<>>

\* two popDeferredForScope calls have returned the same stored proposal
C18_ReturnedTwice ==
    /\ \A p \in Racers :
          procs[p].pc = "done" /\ procs[p].op = "popDeferredForScope"
    /\ procs[1].matched # <<>>
    /\ procs[1].matched = procs[2].matched

----------------------------------------------------------------------------
(* C19 -- Each operation changes its own fields of the state it read and    *)
(* persists the rest as read: recordCycle adds 1 to totalCycles and sets    *)
(* lastRunAt, and keeps lastDocsAuditCycle and the backlog, expired         *)
(* proposals included, in their order; recordDocsAudit sets                 *)
(* lastDocsAuditCycle and keeps totalCycles, lastRunAt and the backlog; a   *)
(* deferProposal that appends keeps the three numbers and adds the new      *)
(* proposal at the end of the backlog.                                      *)
C19_OwnFieldsOnly ==
    (lastOp.op \in Mutators /\ lastOp.wrote) =>
        /\ HoldsState(fs)
        /\ lastOp.op = "recordCycle" =>
              /\ fs.json.totalCycles = Read.totalCycles + 1
              /\ fs.json.lastRunAt = now
              /\ fs.json.lastDocsAuditCycle = Read.lastDocsAuditCycle
              /\ fs.json.deferredProposals = Read.deferredProposals
        /\ lastOp.op = "recordDocsAudit" =>
              /\ fs.json.lastDocsAuditCycle = Read.totalCycles
              /\ fs.json.totalCycles = Read.totalCycles
              /\ fs.json.lastRunAt = Read.lastRunAt
              /\ fs.json.deferredProposals = Read.deferredProposals
        /\ lastOp.op = "deferProposal" =>
              /\ fs.json.totalCycles = Read.totalCycles
              /\ fs.json.lastDocsAuditCycle = Read.lastDocsAuditCycle
              /\ fs.json.lastRunAt = Read.lastRunAt
              /\ fs.json.deferredProposals =
                    Append(Read.deferredProposals, lastOp.proposal)

\* a cycle recorded over a backlog of two, the first of them expired: both
\* are still stored, in the same order, and the audit baseline is kept
C19_Witness ==
    /\ lastOp.op = "recordCycle"
    /\ Len(FileBacklog(fs)) = 2
    /\ Expired(FileBacklog(fs)[1], now)
    /\ ~Expired(FileBacklog(fs)[2], now)
    /\ fs.json.lastDocsAuditCycle = 1
    /\ fs.json.totalCycles = 2

----------------------------------------------------------------------------
(* C20 -- deferProposal(root, p) with a non-expired p changes nothing only  *)
(* when a non-expired proposal titled p.title is stored; otherwise, also    *)
(* when the only stored proposal of that title has expired, p is stored     *)
(* when the call returns.                                                   *)
C20_ExpiredTitleDoesNotBlock ==
    (lastOp.op = "deferProposal" /\ ~lastOp.threw
        /\ ~Expired(lastOp.proposal, now)) =>
        LET p == lastOp.proposal
            held == \E dp \in Items(Read.deferredProposals) :
                        dp.title = p.title /\ ~Expired(dp, now)
        IN  /\ ~lastOp.wrote => held
            /\ ~held => p \in Items(Stored.deferredProposals)

\* the proposal is refused because of a stored proposal of its title that
\* expired, and is stored nowhere
C20_RefusedForExpiredTitle ==
    /\ lastOp.op = "deferProposal"
    /\ ~lastOp.wrote
    /\ lastOp.proposal \notin Items(Stored.deferredProposals)
    /\ \A dp \in Items(Read.deferredProposals) :
          dp.title = lastOp.proposal.title => Expired(dp, now)

====
